---- MODULE Spec2Model ----
(***************************************************************************)
(* The notifications view of the ActivityPub admin app: the per-page       *)
(* filter chain and groupActivities of the Notifications component, and    *)
(* the IntersectionObserver effect that requests the next page.            *)
(***************************************************************************)
EXTENDS Naturals, Sequences, FiniteSets, TLC

VARIABLES
    userProfile,          \* data of useUserDataForUser: Absent (null) or the viewer's actor
    data,                 \* data of getActivitiesQuery: Absent or [pages |-> <<page, ...>>]
    hasNextPage,          \* getActivitiesQuery.hasNextPage
    isFetchingNextPage,   \* getActivitiesQuery.isFetchingNextPage
    inFlight,             \* next-page requests issued and not yet answered
    filtered,             \* the `filtered` array of each page, as of the last render
    groupedActivities,    \* groupedActivities of the last render, or the thrown error
    sentinelMounted,      \* the loadMoreRef div is in the DOM (loadMoreRef.current # null)
    observer,             \* observerRef.current: the values its callback closed over
    descriptions,         \* the text of NotificationGroupDescription of every group shown
    openStates            \* the openStates object: key |-> boolean, for the keys set so far

vars == <<userProfile, data, hasNextPage, isFetchingNextPage, inFlight,
          filtered, groupedActivities, sentinelMounted, observer,
          descriptions, openStates>>

----------------------------------------------------------------------------
(* JavaScript values *)

\* the value undefined where a string (an id) is expected
Undefined == "undefined"

\* a nested object that is missing (undefined or null)
Absent == [absent |-> TRUE]

ACTIVITY_TYPE ==
    [CREATE |-> "Create", LIKE |-> "Like", FOLLOW |-> "Follow", REPOST |-> "Announce"]

\* x?.id
Id(x) == IF x = Absent THEN Undefined ELSE x.id

\* activity.object?.attributedTo?.id
AttributedToId(object) ==
    IF object = Absent THEN Undefined ELSE Id(object.attributedTo)

\* activity.object?.inReplyTo?.attributedTo?.id
InReplyToAttributedToId(object) ==
    IF object = Absent THEN Undefined
    ELSE IF object.inReplyTo = Absent THEN Undefined
    ELSE Id(object.inReplyTo.attributedTo)

\* the truthiness of a string or undefined
Truthy(s) == s # Undefined /\ s # ""

----------------------------------------------------------------------------
(* The filter chain of one page *)

\* self.findIndex(a => a.id === id), for an id that occurs in self
FindIndex(self, id) ==
    CHOOSE i \in 1..Len(self) :
        /\ self[i].id = id
        /\ \A j \in 1..(i - 1) : self[j].id # id

RECURSIVE FilterFirstOccurrences(_, _)
\* self.filter((activity, index, self) => index === self.findIndex(...)), from index on
FilterFirstOccurrences(self, index) ==
    IF index > Len(self) THEN <<>>
    ELSE (IF index = FindIndex(self, self[index].id) THEN <<self[index]>> ELSE <<>>)
         \o FilterFirstOccurrences(self, index + 1)

\* the duplicate test by object identity (self.indexOf(activity)): removes nothing
RemoveDuplicates_ByIdentity(self) == self

\* Remove duplicates
RemoveDuplicates(self) == FilterFirstOccurrences(self, 1)

\* the own-like filter comparing the activity's id, not the actor's
KeepNotOwnLike_ComparesActivityId(activity, profile) ==
    ~(activity.type = ACTIVITY_TYPE.LIKE /\ activity.id = Id(profile))

\* Remove our own likes
KeepNotOwnLike(activity, profile) ==
    ~(activity.type = ACTIVITY_TYPE.LIKE /\ Id(activity.actor) = Id(profile))

\* Remove follower likes if they are not for our own posts
KeepLikeOfOwnPost(activity, profile) ==
    ~(activity.type = ACTIVITY_TYPE.LIKE /\ AttributedToId(activity.object) # Id(profile))

\* the repost filter pasted from the like filter with the type left unchanged
KeepRepostOfOwnPost_TestsLike(activity, profile) ==
    ~(activity.type = ACTIVITY_TYPE.LIKE /\ AttributedToId(activity.object) # Id(profile))

\* Remove reposts that are not for our own posts
KeepRepostOfOwnPost(activity, profile) ==
    ~(activity.type = ACTIVITY_TYPE.REPOST /\ AttributedToId(activity.object) # Id(profile))

\* Remove create activities that are not replies to our own posts
KeepReplyToOwnPost(activity, profile) ==
    ~(/\ activity.type = ACTIVITY_TYPE.CREATE
      /\ InReplyToAttributedToId(activity.object) # Id(profile))

\* the own-create filter pasted from the own-like filter with the type left unchanged
KeepNotOwnCreate_TestsLike(activity, profile) ==
    ~(activity.type = ACTIVITY_TYPE.LIKE /\ Id(activity.actor) = Id(profile))

\* Remove our own create activities
KeepNotOwnCreate(activity, profile) ==
    ~(activity.type = ACTIVITY_TYPE.CREATE /\ Id(activity.actor) = Id(profile))

\* the k-th content filter of the chain
ContentFilter(k, activity, profile) ==
    CASE k = 1 -> KeepNotOwnLike(activity, profile)
      [] k = 2 -> KeepLikeOfOwnPost(activity, profile)
      [] k = 3 -> KeepRepostOfOwnPost(activity, profile)
      [] k = 4 -> KeepReplyToOwnPost(activity, profile)
      [] k = 5 -> KeepNotOwnCreate(activity, profile)

RECURSIVE ApplyFilters(_, _, _)
\* activities.filter(order[1]).filter(order[2])...
ApplyFilters(order, activities, profile) ==
    IF order = <<>> THEN activities
    ELSE ApplyFilters(Tail(order),
                      SelectSeq(activities,
                                LAMBDA a : ContentFilter(Head(order), a, profile)),
                      profile)

\* the order in which the component chains its content filters
FilterOrder == <<1, 2, 3, 4, 5>>

\* const filtered = page.data.filter(...)...
Filtered(page, profile) ==
    ApplyFilters(FilterOrder, RemoveDuplicates(page), profile)

----------------------------------------------------------------------------
(* groupActivities *)

\* A property key `${prefix}${id}` is kept as the pair <<prefix, id>>; '' is <<"", "">>.
EmptyKey == <<"", "">>

\* the switch with the reply key left as the bare activity id
GroupKey_BareCreateId(activity) ==
    CASE activity.type = ACTIVITY_TYPE.FOLLOW -> <<"follow_", activity.type>>
      [] activity.type = ACTIVITY_TYPE.LIKE ->
            IF Truthy(Id(activity.object)) THEN <<"like_", activity.object.id>>
            ELSE EmptyKey
      [] activity.type = ACTIVITY_TYPE.REPOST ->
            IF Truthy(Id(activity.object)) THEN <<"announce_", activity.object.id>>
            ELSE EmptyKey
      [] activity.type = ACTIVITY_TYPE.CREATE -> <<"", activity.id>>
      [] OTHER -> EmptyKey

\* the switch without the `if (activity.object?.id)`: like_undefined, announce_undefined
GroupKey_NoObjectIdCheck(activity) ==
    CASE activity.type = ACTIVITY_TYPE.FOLLOW -> <<"follow_", activity.type>>
      [] activity.type = ACTIVITY_TYPE.LIKE -> <<"like_", Id(activity.object)>>
      [] activity.type = ACTIVITY_TYPE.REPOST -> <<"announce_", Id(activity.object)>>
      [] activity.type = ACTIVITY_TYPE.CREATE -> <<"create_", activity.id>>
      [] OTHER -> EmptyKey

\* the switch of groupActivities
GroupKey(activity) ==
    CASE activity.type = ACTIVITY_TYPE.FOLLOW -> <<"follow_", activity.type>>
      [] activity.type = ACTIVITY_TYPE.LIKE ->
            IF Truthy(Id(activity.object)) THEN <<"like_", activity.object.id>>
            ELSE EmptyKey
      [] activity.type = ACTIVITY_TYPE.REPOST ->
            IF Truthy(Id(activity.object)) THEN <<"announce_", activity.object.id>>
            ELSE EmptyKey
      [] activity.type = ACTIVITY_TYPE.CREATE -> <<"create_", activity.id>>
      [] OTHER -> EmptyKey

\* the decimal strings that are array indices, by value
IndexStrings == <<"1", "2", "3", "4", "5">>

\* a property key that is a canonical array index ("1", "2", ...)
IsArrayIndex(key) == key[1] = "" /\ key[2] \in {"1", "2", "3", "4", "5"}

IndexValue(key) == CHOOSE n \in 1..Len(IndexStrings) : IndexStrings[n] = key[2]

\* groups: the object {[key]: GroupedActivity}, as its entries in insertion order
HasKey(groups, key) == \E i \in 1..Len(groups) : groups[i].key = key

KeyIndex(groups, key) == CHOOSE i \in 1..Len(groups) : groups[i].key = key

\* what a computation yields: a value, or the TypeError it threw
Returned(value) == [threw |-> FALSE, value |-> value]

Threw == [threw |-> TRUE, value |-> <<>>]

\* the round without the `find`: every activity pushes its actor
AddActivity_NoActorCheck(groups, activity) ==
    LET groupKey == GroupKey(activity)
        seeded == IF ~HasKey(groups, groupKey)
                  THEN Append(groups, [key |-> groupKey,
                                       value |-> [type   |-> activity.type,
                                                  actors |-> <<>>,
                                                  object |-> activity.object,
                                                  id     |-> activity.id]])
                  ELSE groups
        i == KeyIndex(seeded, groupKey)
    IN  IF activity.actor = Absent THEN Threw
        ELSE Returned([seeded EXCEPT ![i].value.actors =
                                         Append(seeded[i].value.actors, activity.actor)])

\* the round that compares the key with the last group only ("next to each other")
AddActivity_AdjacentOnly(groups, activity) ==
    LET groupKey == GroupKey(activity)
        seeded == IF groups = <<>> \/ groups[Len(groups)].key # groupKey
                  THEN Append(groups, [key |-> groupKey,
                                       value |-> [type   |-> activity.type,
                                                  actors |-> <<>>,
                                                  object |-> activity.object,
                                                  id     |-> activity.id]])
                  ELSE groups
        i == Len(seeded)
        actors == seeded[i].value.actors
    IN  IF activity.actor = Absent THEN Threw
        ELSE IF \E n \in 1..Len(actors) : actors[n].id = activity.actor.id
             THEN Returned(seeded)
             ELSE Returned([seeded EXCEPT ![i].value.actors =
                                              Append(actors, activity.actor)])

\* the round that takes type, object and id from every activity of the key
AddActivity_LastWins(groups, activity) ==
    LET groupKey == GroupKey(activity)
        value == [type   |-> activity.type,
                  actors |-> IF HasKey(groups, groupKey)
                             THEN groups[KeyIndex(groups, groupKey)].value.actors
                             ELSE <<>>,
                  object |-> activity.object,
                  id     |-> activity.id]
        seeded == IF ~HasKey(groups, groupKey)
                  THEN Append(groups, [key |-> groupKey, value |-> value])
                  ELSE [groups EXCEPT ![KeyIndex(groups, groupKey)].value = value]
        i == KeyIndex(seeded, groupKey)
        actors == seeded[i].value.actors
    IN  IF activity.actor = Absent THEN Threw
        ELSE IF \E n \in 1..Len(actors) : actors[n].id = activity.actor.id
             THEN Returned(seeded)
             ELSE Returned([seeded EXCEPT ![i].value.actors =
                                              Append(actors, activity.actor)])

\* one round of the forEach on the groups so far
AddActivity(groups, activity) ==
    LET groupKey == GroupKey(activity)
        seeded == IF ~HasKey(groups, groupKey)
                  THEN Append(groups, [key |-> groupKey,
                                       value |-> [type   |-> activity.type,
                                                  actors |-> <<>>,
                                                  object |-> activity.object,
                                                  id     |-> activity.id]])
                  ELSE groups
        i == KeyIndex(seeded, groupKey)
        actors == seeded[i].value.actors
    IN  IF activity.actor = Absent THEN Threw    \* activity.actor.id of undefined
        ELSE IF \E n \in 1..Len(actors) : actors[n].id = activity.actor.id
             THEN Returned(seeded)
             ELSE Returned([seeded EXCEPT ![i].value.actors =
                                              Append(actors, activity.actor)])

RECURSIVE ForEach(_, _)
\* activities.forEach(...), from the groups so far
ForEach(groups, activities) ==
    IF activities = <<>> THEN Returned(groups)
    ELSE LET next == AddActivity(groups, Head(activities))
         IN  IF next.threw THEN Threw ELSE ForEach(next.value, Tail(activities))

RECURSIVE SortedIndexEntries(_, _)
\* the entries (all with array-index keys) in ascending numeric order, from value n on
SortedIndexEntries(entries, n) ==
    IF n > Len(IndexStrings) THEN <<>>
    ELSE SelectSeq(entries, LAMBDA e : IndexValue(e.key) = n)
         \o SortedIndexEntries(entries, n + 1)

\* the values of the entries, in their order
Values(entries) == [i \in 1..Len(entries) |-> entries[i].value]

\* Object.values(groups): array-index keys ascending, then the others as inserted
ObjectValues(groups) ==
    IF \A i \in 1..Len(groups) : ~IsArrayIndex(groups[i].key)
    THEN Values(groups)
    ELSE Values(SortedIndexEntries(SelectSeq(groups, LAMBDA e : IsArrayIndex(e.key)), 1)
                \o SelectSeq(groups, LAMBDA e : ~IsArrayIndex(e.key)))

\* groupActivities(activities)
groupActivities(activities) ==
    LET groups == ForEach(<<>>, activities)
    IN  IF groups.threw THEN Threw ELSE Returned(ObjectValues(groups.value))

----------------------------------------------------------------------------
(* The render of Notifications *)

\* Array(5).fill({actors: [{}]})
Placeholders ==
    [i \in 1..5 |-> [type |-> Undefined, actors |-> <<[id |-> Undefined]>>,
                     object |-> Absent, id |-> Undefined]]

RECURSIVE FlatMap(_, _)
\* pages.flatMap(page => groupActivities(filtered)): what it yields, and the
\* `filtered` array of every page the callback ran on (up to one that throws)
FlatMap(pages, profile) ==
    IF pages = <<>> THEN [threw |-> FALSE, value |-> <<>>, filtered |-> <<>>]
    ELSE LET pageFiltered == Filtered(Head(pages), profile)
             head == groupActivities(pageFiltered)
             rest == FlatMap(Tail(pages), profile)
         IN  IF head.threw
             THEN [threw |-> TRUE, value |-> <<>>, filtered |-> <<pageFiltered>>]
             ELSE [threw    |-> rest.threw,
                   value    |-> IF rest.threw THEN <<>> ELSE head.value \o rest.value,
                   filtered |-> <<pageFiltered>> \o rest.filtered]

\* const groupedActivities = (data?.pages.flatMap(...) ?? Array(5).fill(...))
GroupedActivities(d, profile) ==
    IF d = Absent
    THEN [threw |-> FALSE, value |-> Placeholders, filtered |-> <<>>]
    ELSE FlatMap(d.pages, profile)

\* object?.[field], also for an object that has no such property
Field(object, field) ==
    IF object = Absent THEN Undefined
    ELSE IF field \in DOMAIN object THEN object[field] ELSE Undefined

\* {value} as a React child: a string as it is, undefined as nothing
Text(value) == IF value = Undefined THEN "" ELSE value

\* the phrase that joins the second actor with " and " whatever follows
ActorText_AlwaysAnd(group) ==
    LET actors == group.actors
    IN  Text(Field(actors[1], "name"))
        \o (IF Len(actors) >= 2
            THEN " and " \o Text(Field(actors[2], "name"))
            ELSE "")
        \o (IF Len(actors) > 2 THEN " and others" ELSE "")

\* const actorText of NotificationGroupDescription, for a group with an actor
ActorText(group) ==
    LET actors == group.actors
        hasOthers == Len(actors) > 2
    IN  Text(Field(actors[1], "name"))
        \o (IF Len(actors) >= 2
            THEN (IF hasOthers THEN ", " ELSE " and ")
                 \o Text(Field(actors[2], "name"))
            ELSE "")
        \o (IF hasOthers THEN " and others" ELSE "")

\* group.object?.type === 'Article' ? 'post' : 'note'
PostOrNote(object) == IF Field(object, "type") = "Article" THEN "post" ELSE "note"

\* group.object?.name || ''
NameOrEmpty(object) ==
    IF Truthy(Field(object, "name")) THEN object.name ELSE ""

\* group.object?.inReplyTo is an object (the inputs hold no bare string reference)
HasInReplyTo(object) ==
    /\ object # Absent
    /\ "inReplyTo" \in DOMAIN object
    /\ object.inReplyTo # Absent

\* truncate(content, 80) of a reply's description: the name of the replied-to post,
\* else its content, else ''.  The names and contents of the inputs hold no markup
\* and fewer than 80 characters, which stripHtml and truncate leave as they are.
QuotedContent(inReplyTo) ==
    IF Truthy(Field(inReplyTo, "name")) THEN inReplyTo.name
    ELSE IF Truthy(Field(inReplyTo, "content")) THEN inReplyTo.content
    ELSE ""

\* the text NotificationGroupDescription renders
NotificationGroupDescription(group) ==
    CASE group.type = ACTIVITY_TYPE.FOLLOW ->
            ActorText(group) \o " started following you"
      [] group.type = ACTIVITY_TYPE.LIKE ->
            ActorText(group) \o " liked your " \o PostOrNote(group.object)
                \o " " \o NameOrEmpty(group.object)
      [] group.type = ACTIVITY_TYPE.REPOST ->
            ActorText(group) \o " reposted your " \o PostOrNote(group.object)
                \o " " \o NameOrEmpty(group.object)
      [] group.type = ACTIVITY_TYPE.CREATE ->
            IF HasInReplyTo(group.object)
            THEN ActorText(group) \o " replied to your post "
                    \o QuotedContent(group.object.inReplyTo)
            ELSE ""
      [] OTHER -> ""

\* const isLoading: a query is loading until it holds data (no query fails)
IsLoading(d, profile) == profile = Absent \/ d = Absent

\* group.id || `${group.type}_${index}`, index counting from 0
OpenStateKey(group, index) ==
    IF Truthy(group.id) THEN group.id ELSE group.type \o "_" \o ToString(index)

\* what the IntersectionObserver callback of one effect run closes over
Observer(next, fetching, observing) ==
    [hasNextPage |-> next, isFetchingNextPage |-> fetching, observing |-> observing]

\* One render of the component with the effect of lines 246-266: the effect runs
\* again only when hasNextPage or isFetchingNextPage differ from the last run
\* (fetchNextPage is referentially stable).  A render that throws unmounts the
\* component, whose effect cleanup disconnects the observer.
Render ==
    /\ ~groupedActivities.threw
    /\ LET result == GroupedActivities(data, userProfile)
           mounted == ~result.threw /\ Len(result.value) > 0
           depsChanged == \/ observer.hasNextPage # hasNextPage
                          \/ observer.isFetchingNextPage # isFetchingNextPage
       IN  /\ groupedActivities' = [threw |-> result.threw, value |-> result.value]
           /\ filtered' = result.filtered
           /\ sentinelMounted' = mounted
           /\ observer' =
                 IF result.threw THEN [observer EXCEPT !.observing = FALSE]
                 ELSE IF depsChanged
                      THEN Observer(hasNextPage, isFetchingNextPage, mounted)
                      ELSE [observer EXCEPT
                               !.observing = observer.observing /\ sentinelMounted /\ mounted]
           /\ descriptions' =
                 IF result.threw \/ IsLoading(data, userProfile) THEN <<>>
                 ELSE [n \in 1..Len(result.value) |->
                          NotificationGroupDescription(result.value[n])]
    /\ UNCHANGED <<userProfile, data, hasNextPage, isFetchingNextPage, inFlight,
                   openStates>>

----------------------------------------------------------------------------
(* Inputs *)

Actor(id) == [id |-> id]

Object(id, attributedTo, inReplyTo) ==
    [id |-> id, attributedTo |-> attributedTo, inReplyTo |-> inReplyTo]

Activity(id, type, actor, object) ==
    [id |-> id, type |-> type, actor |-> actor, object |-> object]

\* the actor the admin is signed in as
Viewer == Actor("v")

\* longest page of the filter inputs
MaxPageLen == 2

\* activities that exercise every branch of the filter chain
FilterActivities ==
    LET ids    == {"1", "2"}
        owners == {Absent, Viewer, Actor("a")}
    IN  {Activity(id, ACTIVITY_TYPE.FOLLOW, actor, Absent) :
            id \in ids, actor \in {Viewer, Actor("a")}}
        \cup {Activity(id, ACTIVITY_TYPE.LIKE, actor, Object("X", owner, Absent)) :
            id \in ids, actor \in owners, owner \in owners}
        \cup {Activity(id, ACTIVITY_TYPE.REPOST, Actor("a"), Object("X", owner, Absent)) :
            id \in ids, owner \in owners}
        \cup {Activity(id, ACTIVITY_TYPE.CREATE, actor, Object("R", Absent, reply)) :
            id \in ids, actor \in owners,
            reply \in {Absent, [attributedTo |-> Viewer], [attributedTo |-> Actor("a")]}}

\* the state after the first, data-less render: placeholders, sentinel observed
Mounted ==
    /\ hasNextPage = FALSE
    /\ isFetchingNextPage = FALSE
    /\ inFlight = 0
    /\ filtered = <<>>
    /\ groupedActivities = Returned(Placeholders)
    /\ sentinelMounted = TRUE
    /\ observer = Observer(FALSE, FALSE, TRUE)
    /\ descriptions = <<>>
    /\ openStates = <<>>

\* one page of the given activities has arrived and is about to be rendered
OnePage(activities, maxLen, profiles) ==
    /\ userProfile \in profiles
    /\ \E k \in 0..maxLen :
          \E page \in [1..k -> activities] : data = [pages |-> <<page>>]
    /\ Mounted

InitFilter == OnePage(FilterActivities, MaxPageLen, {Absent, Viewer})

\* the filter chain on every page of FilterActivities, profile loaded or not
SpecFilter == InitFilter /\ [][Render]_vars

\* activities around the reply filter: every kind of Create, and the other types
\* kept and removed
ReplyActivities ==
    LET ids    == {"1", "2"}
        owners == {Absent, Viewer, Actor("a")}
    IN  {Activity(id, ACTIVITY_TYPE.FOLLOW, Actor("a"), Absent) : id \in ids}
        \cup {Activity(id, ACTIVITY_TYPE.LIKE, actor, Object("X", Viewer, Absent)) :
            id \in ids, actor \in {Viewer, Actor("a")}}
        \cup {Activity(id, ACTIVITY_TYPE.REPOST, Actor("a"), Object("X", owner, Absent)) :
            id \in ids, owner \in {Viewer, Actor("a")}}
        \cup {Activity(id, ACTIVITY_TYPE.CREATE, actor, Object("R", Absent, reply)) :
            id \in ids, actor \in owners,
            reply \in {Absent, [attributedTo |-> Viewer], [attributedTo |-> Actor("a")]}}

InitReply == OnePage(ReplyActivities, MaxPageLen, {Absent, Viewer})

\* the filter chain on every page of ReplyActivities, profile loaded or not
SpecReply == InitReply /\ [][Render]_vars

\* activities around the viewer's own actions: likes, reposts and replies by the
\* viewer and by another actor, on objects of the viewer with and without an id
SelfActivities ==
    LET ids    == {"1", "2"}
        actors == {Viewer, Actor("a")}
    IN  {Activity(id, ACTIVITY_TYPE.FOLLOW, Viewer, Absent) : id \in ids}
        \cup {Activity(id, type, actor, Object(objectId, Viewer, Absent)) :
            id \in ids, type \in {ACTIVITY_TYPE.LIKE, ACTIVITY_TYPE.REPOST},
            actor \in actors, objectId \in {Undefined, "X"}}
        \cup {Activity(id, ACTIVITY_TYPE.LIKE, Absent, Object("X", Absent, Absent)) :
            id \in ids}
        \cup {Activity(id, ACTIVITY_TYPE.CREATE, actor,
                       Object("R", Absent, [attributedTo |-> Viewer])) :
            id \in ids, actor \in actors}

InitSelf == OnePage(SelfActivities, MaxPageLen, {Absent, Viewer})

\* filter and grouping on every page of SelfActivities, profile loaded or not
SpecSelf == InitSelf /\ [][Render]_vars

\* sparse activities: every type with the actor, the object, the object id, the
\* owner and the replied-to post present or missing
SparseActivities ==
    {Activity(id, type, actor, object) :
        id \in {"1", "2"},
        type \in {ACTIVITY_TYPE.FOLLOW, ACTIVITY_TYPE.LIKE,
                  ACTIVITY_TYPE.REPOST, ACTIVITY_TYPE.CREATE},
        actor \in {Absent, Actor("a")},
        object \in {Absent} \cup
                   {Object(objectId, owner, reply) :
                       objectId \in {Undefined, "X"},
                       owner \in {Absent, Viewer},
                       reply \in {Absent, [attributedTo |-> Viewer]}}}

InitSparse == OnePage(SparseActivities, MaxPageLen, {Absent, Viewer})

\* filter and grouping on every page of SparseActivities, profile loaded or not
SpecSparse == InitSparse /\ [][Render]_vars

\* longest page of the grouping inputs
MaxGroupLen == 3

\* what an activity of the grouping inputs is, apart from its id: all of them
\* concern the viewer's objects, so that the filters keep them
GroupContents ==
    {[type |-> ACTIVITY_TYPE.FOLLOW, actor |-> Actor(who), object |-> Absent] :
        who \in {"a", "b"}}
    \cup {[type |-> ACTIVITY_TYPE.LIKE, actor |-> Actor(who),
           object |-> Object(objectId, Viewer, Absent)] :
        who \in {"a", "b"}, objectId \in {"X", "Y", Undefined}}
    \cup {[type |-> ACTIVITY_TYPE.REPOST, actor |-> Actor(who[1]),
           object |-> Object(who[2], Viewer, Absent)] :
        who \in {<<"a", "X">>, <<"b", "X">>, <<"a", Undefined>>}}
    \cup {[type |-> ACTIVITY_TYPE.CREATE, actor |-> Actor("a"),
           object |-> Object("R", Absent, [attributedTo |-> Viewer])]}

\* a page of at most MaxGroupLen activities has arrived, whose ids "1", "2", ...
\* ascend or descend along the page
InitGroup ==
    /\ userProfile = Viewer
    /\ \E k \in 0..MaxGroupLen :
          \E ascending \in BOOLEAN, content \in [1..k -> GroupContents] :
              data = [pages |-> <<[i \in 1..k |->
                         Activity(IndexStrings[IF ascending THEN i ELSE k + 1 - i],
                                  content[i].type, content[i].actor,
                                  content[i].object)]>>]
    /\ Mounted

\* filter and grouping on every such page, profile loaded
SpecGroup == InitGroup /\ [][Render]_vars

\* an actor with a display name
NamedActor(id, name) == [id |-> id, name |-> name]

Alice == NamedActor("a1", "Alice")

Bob == NamedActor("a2", "Bob")

Carol == NamedActor("a3", "Carol")

\* longest page of the description inputs
MaxDescribeLen == 3

\* what an activity of the description inputs is, apart from its id: follows by
\* three actors, likes of an article and of a note of the viewer, and a reply
DescribeContents ==
    {[type |-> ACTIVITY_TYPE.FOLLOW, actor |-> who, object |-> Absent] :
        who \in {Alice, Bob, Carol}}
    \cup {[type |-> ACTIVITY_TYPE.LIKE, actor |-> who,
           object |-> [id |-> "X", attributedTo |-> Viewer, inReplyTo |-> Absent,
                       type |-> "Article", name |-> "News"]] :
        who \in {Alice, Bob}}
    \cup {[type |-> ACTIVITY_TYPE.REPOST, actor |-> Carol,
           object |-> [id |-> "Y", attributedTo |-> Viewer, inReplyTo |-> Absent,
                       type |-> "Note"]]}
    \cup {[type |-> ACTIVITY_TYPE.CREATE, actor |-> Bob,
           object |-> [id |-> "R", attributedTo |-> Bob,
                       inReplyTo |-> [attributedTo |-> Viewer, content |-> "Hello"]]]}

\* a page of at most MaxDescribeLen of these activities has arrived, ids "1", "2", ...
InitDescribe ==
    /\ userProfile = Viewer
    /\ \E k \in 0..MaxDescribeLen :
          \E content \in [1..k -> DescribeContents] :
              data = [pages |-> <<[i \in 1..k |->
                         Activity(IndexStrings[i], content[i].type, content[i].actor,
                                  content[i].object)]>>]
    /\ Mounted

\* filter, grouping and description on every such page, profile loaded
SpecDescribe == InitDescribe /\ [][Render]_vars

----------------------------------------------------------------------------
(* Vocabulary of the properties of one rendered page *)

\* the one-page specifications: the page that arrived, and its `filtered` array
ThePage == data.pages[1]

TheFiltered == filtered[1]

\* the arrived page has been rendered
Rendered == data # Absent /\ Len(filtered) = Len(data.pages) /\ Len(filtered) = 1

\* the ids of a sequence of activities, and the positions of one id
IdsOf(activities) == {activities[i].id : i \in 1..Len(activities)}

PositionsOf(activities, id) == {i \in 1..Len(activities) : activities[i].id = id}

\* position i holds the first activity of the page with its id
IsFirstOccurrence(page, i) == \A j \in 1..(i - 1) : page[j].id # page[i].id

\* the first activity of the page with the given id
FirstWithId(page, id) ==
    page[CHOOSE i \in PositionsOf(page, id) : IsFirstOccurrence(page, i)]

PassesContentFilters(activity, profile) ==
    \A k \in 1..5 : ContentFilter(k, activity, profile)

Occurs(activities, activity) == \E k \in 1..Len(activities) : activities[k] = activity

----------------------------------------------------------------------------
(* C1 *)

\* C1 as stated: every id of the input page occurs exactly once in the filtered
\* output, and the record kept is the first occurrence of that id.
C1_EachIdExactlyOnce ==
    Rendered =>
        \A id \in IdsOf(ThePage) :
            /\ Cardinality(PositionsOf(TheFiltered, id)) = 1
            /\ \A k \in PositionsOf(TheFiltered, id) :
                   TheFiltered[k] = FirstWithId(ThePage, id)

\* C1 (amended): every id of the input page occurs at most once in the filtered
\* output; a retained record is the first occurrence of its id; and an id is
\* retained exactly when its first occurrence passes the five content filters.
C1_FirstOccurrenceOrNone ==
    Rendered =>
        \A id \in IdsOf(ThePage) :
            /\ Cardinality(PositionsOf(TheFiltered, id)) <= 1
            /\ \A k \in PositionsOf(TheFiltered, id) :
                   TheFiltered[k] = FirstWithId(ThePage, id)
            /\ PositionsOf(TheFiltered, id) # {}
                   <=> PassesContentFilters(FirstWithId(ThePage, id), userProfile)

\* a rendered page with one id under two different records, the first one kept
C1_Witness ==
    /\ Rendered
    /\ \E i, j \in 1..Len(ThePage) :
          /\ i < j
          /\ ThePage[i].id = ThePage[j].id
          /\ ThePage[i] # ThePage[j]
          /\ Occurs(TheFiltered, ThePage[i])
          /\ PassesContentFilters(ThePage[j], userProfile)

----------------------------------------------------------------------------
(* C3 *)

\* C3: no Like or Announce whose object.attributedTo.id differs from the viewer's
\* id is in the filtered output, and every Follow that is the first activity of
\* its id is in it (no content filter removes a Follow).
C3_OwnershipFilter ==
    Rendered =>
        /\ \A k \in 1..Len(TheFiltered) :
               TheFiltered[k].type \in {ACTIVITY_TYPE.LIKE, ACTIVITY_TYPE.REPOST}
                   => AttributedToId(TheFiltered[k].object) = Id(userProfile)
        /\ \A i \in 1..Len(ThePage) :
               ThePage[i].type = ACTIVITY_TYPE.FOLLOW /\ IsFirstOccurrence(ThePage, i)
                   => Occurs(TheFiltered, ThePage[i])

\* a rendered page with a repost of somebody else's post next to a kept Follow
C3_Witness ==
    /\ Rendered
    /\ userProfile = Viewer
    /\ \E i, j \in 1..Len(ThePage) :
          /\ ThePage[i].type = ACTIVITY_TYPE.REPOST
          /\ AttributedToId(ThePage[i].object) = "a"
          /\ ThePage[j].type = ACTIVITY_TYPE.FOLLOW
          /\ ThePage[j].id # ThePage[i].id
          /\ TheFiltered = <<ThePage[j]>>

----------------------------------------------------------------------------
(* C4 *)

\* every order of the five content filters
FilterOrders == Permutations(1..5)

\* C4: a Create is in the filtered output iff it is the first activity of its id,
\* replies to a post of the viewer and is not by the viewer; and chaining the
\* five content filters in any order gives the same filtered output.
C4_ReplyFilter ==
    Rendered =>
        /\ \A i \in 1..Len(ThePage) :
               ThePage[i].type = ACTIVITY_TYPE.CREATE =>
                   (Occurs(TheFiltered, ThePage[i]) <=>
                       \E j \in 1..Len(ThePage) :
                           /\ ThePage[j] = ThePage[i]
                           /\ IsFirstOccurrence(ThePage, j)
                           /\ InReplyToAttributedToId(ThePage[j].object) = Id(userProfile)
                           /\ Id(ThePage[j].actor) # Id(userProfile))
        /\ LET deduplicated == RemoveDuplicates(ThePage)
           IN  \A order \in FilterOrders :
                   ApplyFilters(order, deduplicated, userProfile) = TheFiltered

\* a rendered page where a reply to the viewer is kept and the viewer's own is not
C4_Witness ==
    /\ Rendered
    /\ userProfile = Viewer
    /\ Len(ThePage) = 2
    /\ ThePage[1].type = ACTIVITY_TYPE.CREATE
    /\ ThePage[2].type = ACTIVITY_TYPE.CREATE
    /\ Id(ThePage[1].actor) = "v"
    /\ TheFiltered = <<ThePage[2]>>

----------------------------------------------------------------------------
(* C5 *)

\* C5 as stated: whatever the viewer profile is (also null), the filtered output
\* holds no Like or Announce without object.attributedTo.id and no Create without
\* object.inReplyTo.attributedTo.id.
C5_MissingFieldExcluded ==
    Rendered =>
        \A k \in 1..Len(TheFiltered) :
            /\ TheFiltered[k].type \in {ACTIVITY_TYPE.LIKE, ACTIVITY_TYPE.REPOST}
                   => AttributedToId(TheFiltered[k].object) # Undefined
            /\ TheFiltered[k].type = ACTIVITY_TYPE.CREATE
                   => InReplyToAttributedToId(TheFiltered[k].object) # Undefined

----------------------------------------------------------------------------
(* Vocabulary of the properties of the groups of one rendered page *)

TheGroups == groupedActivities.value

\* the grouping key of section 4.2: one for all Follows, the object id for a Like
\* and for an Announce (one shared key when the object id is absent), the
\* activity's own id for a Create
KeyOf(activity) ==
    CASE activity.type = ACTIVITY_TYPE.FOLLOW -> <<"Follow">>
      [] activity.type = ACTIVITY_TYPE.CREATE -> <<"Create", activity.id>>
      [] OTHER -> IF Id(activity.object) = Undefined THEN <<"no object id">>
                  ELSE <<activity.type, activity.object.id>>

\* the positions of the activities with the given key, and the first of them
PositionsOfKey(activities, key) ==
    {k \in 1..Len(activities) : KeyOf(activities[k]) = key}

FirstPosition(activities, key) ==
    CHOOSE k \in PositionsOfKey(activities, key) :
        \A m \in PositionsOfKey(activities, key) : k <= m

\* the key of a group: that of the activity the group has its id from
KeyOfGroup(group) == KeyOf(FirstWithId(TheFiltered, group.id))

\* `actors` holds, without repetition and in the order of their first activity,
\* the actors of the activities at `positions`
IsFirstSeenActors(actors, activities, positions) ==
    /\ \A m, n \in 1..Len(actors) : actors[m].id = actors[n].id => m = n
    /\ {actors[n].id : n \in 1..Len(actors)} = {activities[k].actor.id : k \in positions}
    /\ \A n \in 1..Len(actors) :
          \E k \in positions :
              /\ activities[k].actor = actors[n]
              /\ \A m \in positions : activities[m].actor.id = actors[n].id => k <= m
              /\ \A j \in 1..(n - 1) :
                    \E m \in positions : m < k /\ activities[m].actor.id = actors[j].id

----------------------------------------------------------------------------
(* C6 *)

\* C6: groupActivities returns as many groups as the filtered sequence has
\* distinct grouping keys, one per key, and the actors of a group are the distinct
\* actors (by id) of the activities of its key in order of first occurrence.
C6_GroupingStability ==
    Rendered =>
        /\ ~groupedActivities.threw
        /\ Len(TheGroups) =
              Cardinality({KeyOf(TheFiltered[k]) : k \in 1..Len(TheFiltered)})
        /\ \A n \in 1..Len(TheGroups) :
              /\ TheGroups[n].id \in IdsOf(TheFiltered)
              /\ \A m \in 1..Len(TheGroups) :
                    KeyOfGroup(TheGroups[m]) = KeyOfGroup(TheGroups[n]) => m = n
              /\ IsFirstSeenActors(TheGroups[n].actors, TheFiltered,
                                   PositionsOfKey(TheFiltered, KeyOfGroup(TheGroups[n])))

\* a rendered page of three likes of one object by b, a, b: one group, actors b, a
C6_Witness ==
    /\ Rendered
    /\ Len(TheFiltered) = 3
    /\ \A k \in 1..3 : KeyOf(TheFiltered[k]) = <<ACTIVITY_TYPE.LIKE, "X">>
    /\ TheFiltered[1].actor.id = "b"
    /\ TheFiltered[2].actor.id = "a"
    /\ TheFiltered[3].actor.id = "b"
    /\ Len(TheGroups) = 1
    /\ TheGroups[1].actors = <<Actor("b"), Actor("a")>>

----------------------------------------------------------------------------
(* C7 *)

GroupsOfType(type) == {n \in 1..Len(TheGroups) : TheGroups[n].type = type}

ActivitiesOfType(type) == {k \in 1..Len(TheFiltered) : TheFiltered[k].type = type}

----------------------------------------------------------------------------
(* C8 *)

\* C8: the groups come in the order in which their keys first appear in the
\* filtered sequence, whatever the ids are (also ids that look like numbers).
C8_GroupOrder ==
    Rendered =>
        /\ ~groupedActivities.threw
        /\ \A m, n \in 1..Len(TheGroups) :
              m < n <=> FirstPosition(TheFiltered, KeyOfGroup(TheGroups[m]))
                            < FirstPosition(TheFiltered, KeyOfGroup(TheGroups[n]))

\* a rendered page of two replies with ids "2" then "1", grouped in that order
C8_Witness ==
    /\ Rendered
    /\ Len(TheFiltered) = 2
    /\ TheFiltered[1].type = ACTIVITY_TYPE.CREATE
    /\ TheFiltered[2].type = ACTIVITY_TYPE.CREATE
    /\ TheFiltered[1].id = "2"
    /\ TheFiltered[2].id = "1"
    /\ Len(TheGroups) = 2
    /\ TheGroups[1].id = "2"
    /\ TheGroups[2].id = "1"

----------------------------------------------------------------------------
(* C2 *)

\* C2 as stated: no Like or Create by the viewer is in the filtered output, and
\* the viewer is not among the actors of any Like or Create group.
C2_SelfExcluded ==
    Rendered =>
        /\ ~groupedActivities.threw
        /\ \A k \in 1..Len(TheFiltered) :
              TheFiltered[k].type \in {ACTIVITY_TYPE.LIKE, ACTIVITY_TYPE.CREATE}
                  => Id(TheFiltered[k].actor) # Id(userProfile)
        /\ \A n \in 1..Len(TheGroups) :
              TheGroups[n].type \in {ACTIVITY_TYPE.LIKE, ACTIVITY_TYPE.CREATE}
                  => \A m \in 1..Len(TheGroups[n].actors) :
                         TheGroups[n].actors[m].id # Id(userProfile)

\* C2 (amended): no Like or Create by the viewer is in the filtered output, and
\* the viewer is not among the actors of any Create group nor of any Like group
\* whose object has an id (the group of the activities without object id is
\* shared by Likes and Announces, and may hold the viewer's own Announce).
C2_SelfExcludedWhereKeyed ==
    Rendered =>
        /\ ~groupedActivities.threw
        /\ \A k \in 1..Len(TheFiltered) :
              TheFiltered[k].type \in {ACTIVITY_TYPE.LIKE, ACTIVITY_TYPE.CREATE}
                  => Id(TheFiltered[k].actor) # Id(userProfile)
        /\ \A n \in 1..Len(TheGroups) :
              \/ TheGroups[n].type = ACTIVITY_TYPE.CREATE
              \/ /\ TheGroups[n].type = ACTIVITY_TYPE.LIKE
                 /\ Id(TheGroups[n].object) # Undefined
              => \A m \in 1..Len(TheGroups[n].actors) :
                     TheGroups[n].actors[m].id # Id(userProfile)

\* a rendered page with the viewer's own like of X removed and another actor's
\* like of X grouped
C2_Witness ==
    /\ Rendered
    /\ userProfile = Viewer
    /\ Len(ThePage) = 2
    /\ ThePage[1].type = ACTIVITY_TYPE.LIKE
    /\ ThePage[1].actor = Viewer
    /\ ThePage[1].id # ThePage[2].id
    /\ Id(ThePage[1].object) = "X"
    /\ TheFiltered = <<ThePage[2]>>
    /\ Len(TheGroups) = 1
    /\ TheGroups[1].type = ACTIVITY_TYPE.LIKE
    /\ TheGroups[1].actors = <<Actor("a")>>

----------------------------------------------------------------------------
(* C9 *)

----------------------------------------------------------------------------
(* C11 *)

\* the positions of the Likes and Announces whose object has no id
WithoutObjectId ==
    {k \in 1..Len(TheFiltered) :
        /\ TheFiltered[k].type \in {ACTIVITY_TYPE.LIKE, ACTIVITY_TYPE.REPOST}
        /\ Id(TheFiltered[k].object) = Undefined}

\* the groups of type Like or Announce whose object has no id
GroupsWithoutObjectId ==
    {n \in 1..Len(TheGroups) :
        /\ TheGroups[n].type \in {ACTIVITY_TYPE.LIKE, ACTIVITY_TYPE.REPOST}
        /\ Id(TheGroups[n].object) = Undefined}

\* C11: the Likes and Announces of a page whose object.id is absent are all in
\* one single group, shared by Likes and Announces, whose type, object and id are
\* those of the first of them and whose actors are theirs; an activity with an
\* object.id is never merged into that group but is in a group of its own type
\* and object id.
C11_EmptyKeyCollapse ==
    Rendered =>
        /\ ~groupedActivities.threw
        /\ Cardinality(GroupsWithoutObjectId) = IF WithoutObjectId = {} THEN 0 ELSE 1
        /\ \A n \in GroupsWithoutObjectId :
              LET first == TheFiltered[CHOOSE k \in WithoutObjectId :
                                          \A m \in WithoutObjectId : k <= m]
              IN  /\ TheGroups[n].type = first.type
                  /\ TheGroups[n].object = first.object
                  /\ TheGroups[n].id = first.id
                  /\ IsFirstSeenActors(TheGroups[n].actors, TheFiltered, WithoutObjectId)
        /\ \A k \in 1..Len(TheFiltered) :
              k \notin WithoutObjectId =>
                  \E n \in 1..Len(TheGroups) :
                      /\ n \notin GroupsWithoutObjectId
                      /\ TheGroups[n].type = TheFiltered[k].type
                      /\ Id(TheGroups[n].object) = Id(TheFiltered[k].object)
                      /\ \E m \in 1..Len(TheGroups[n].actors) :
                            TheGroups[n].actors[m] = TheFiltered[k].actor

\* a rendered page [Like of X by a, Announce without object id by a, Like without
\* object id by b]: the last two share one group of type Announce, actors a, b
C11_Witness ==
    /\ Rendered
    /\ Len(TheFiltered) = 3
    /\ KeyOf(TheFiltered[1]) = <<ACTIVITY_TYPE.LIKE, "X">>
    /\ TheFiltered[2].type = ACTIVITY_TYPE.REPOST
    /\ TheFiltered[3].type = ACTIVITY_TYPE.LIKE
    /\ WithoutObjectId = {2, 3}
    /\ TheFiltered[3].actor.id = "b"
    /\ Len(TheGroups) = 2
    /\ TheGroups[2].type = ACTIVITY_TYPE.REPOST
    /\ TheGroups[2].id = TheFiltered[2].id
    /\ TheGroups[2].actors = <<Actor("a"), Actor("b")>>

----------------------------------------------------------------------------
(* C12 *)

\* the actor phrase of section 4.3, for the names of a group's actors in order
ActorPhrase(names) ==
    IF Len(names) = 1 THEN names[1]
    ELSE IF Len(names) = 2 THEN names[1] \o " and " \o names[2]
    ELSE names[1] \o ", " \o names[2] \o " and others"

NamesOf(actors) == [n \in 1..Len(actors) |-> actors[n].name]

\* the page [Follow id 1 by Alice, Follow id 2 by Bob]
AliceAndBobFollow ==
    <<Activity("1", ACTIVITY_TYPE.FOLLOW, Alice, Absent),
      Activity("2", ACTIVITY_TYPE.FOLLOW, Bob, Absent)>>

C12_WitnessOthers ==
    /\ Rendered
    /\ Len(TheGroups) = 1
    /\ Len(TheGroups[1].actors) = 3
    /\ descriptions = <<"Alice, Bob and others started following you">>

----------------------------------------------------------------------------
(* C13 *)

\* C13: every group has the type, object and id of the first activity of the
\* filtered sequence with the group's key, whatever activities of that key come
\* later; it has at least one actor, the first being that first activity's; and
\* every key of the filtered sequence has its group.
C13_GroupRepresentative ==
    Rendered =>
        /\ ~groupedActivities.threw
        /\ \A n \in 1..Len(TheGroups) :
              /\ TheGroups[n].id \in IdsOf(TheFiltered)
              /\ LET first == TheFiltered[FirstPosition(TheFiltered,
                                                        KeyOfGroup(TheGroups[n]))]
                 IN  /\ TheGroups[n].type = first.type
                     /\ TheGroups[n].object = first.object
                     /\ TheGroups[n].id = first.id
                     /\ Len(TheGroups[n].actors) >= 1
                     /\ TheGroups[n].actors[1] = first.actor
        /\ \A k \in 1..Len(TheFiltered) :
              \E n \in 1..Len(TheGroups) :
                  /\ TheGroups[n].id \in IdsOf(TheFiltered)
                  /\ KeyOfGroup(TheGroups[n]) = KeyOf(TheFiltered[k])

\* a rendered page [Like of X by a, Follow, Like of X by b]: the Like group keeps
\* the id and the actor of the first like
C13_Witness ==
    /\ Rendered
    /\ Len(TheFiltered) = 3
    /\ KeyOf(TheFiltered[1]) = <<ACTIVITY_TYPE.LIKE, "X">>
    /\ TheFiltered[2].type = ACTIVITY_TYPE.FOLLOW
    /\ KeyOf(TheFiltered[3]) = <<ACTIVITY_TYPE.LIKE, "X">>
    /\ TheFiltered[1].actor.id = "a"
    /\ TheFiltered[3].actor.id = "b"
    /\ Len(TheGroups) = 2
    /\ TheGroups[1].id = TheFiltered[1].id
    /\ TheGroups[1].id # TheFiltered[3].id
    /\ TheGroups[1].actors = <<Actor("a"), Actor("b")>>

----------------------------------------------------------------------------
(* The queries and the load-more observer *)

\* most pages the activities query holds
MaxPages == 3

\* most next-page requests outstanding at once
MaxInFlight == 2

\* the pages the server answers with: two follows; a like of somebody else's
\* post (filtered to nothing); one of the follows again
ServerPages ==
    {<<Activity("1", ACTIVITY_TYPE.FOLLOW, Actor("a"), Absent),
       Activity("2", ACTIVITY_TYPE.FOLLOW, Actor("b"), Absent)>>,
     <<Activity("3", ACTIVITY_TYPE.LIKE, Actor("a"),
                Object("X", Actor("b"), Absent))>>,
     <<Activity("1", ACTIVITY_TYPE.FOLLOW, Actor("a"), Absent)>>}

\* the component is mounted (its render has not thrown)
IsMounted == ~groupedActivities.threw

\* useUserDataForUser resolves with the viewer's profile
ProfileLoaded ==
    /\ userProfile = Absent
    /\ userProfile' = Viewer
    /\ UNCHANGED <<data, hasNextPage, isFetchingNextPage, inFlight,
                   filtered, groupedActivities, sentinelMounted, observer,
                   descriptions, openStates>>

\* getActivitiesQuery resolves with its first page
ActivitiesLoaded ==
    /\ data = Absent
    /\ \E page \in ServerPages, more \in BOOLEAN :
          /\ data' = [pages |-> <<page>>]
          /\ hasNextPage' = more
    /\ UNCHANGED <<userProfile, isFetchingNextPage, inFlight,
                   filtered, groupedActivities, sentinelMounted, observer,
                   descriptions, openStates>>

\* fetchNextPage() of the query: a request goes out and the query is fetching
FetchNextPage ==
    /\ inFlight' = inFlight + 1
    /\ isFetchingNextPage' = TRUE
    /\ UNCHANGED <<userProfile, data, hasNextPage,
                   filtered, groupedActivities, sentinelMounted, observer,
                   descriptions, openStates>>

\* The observed sentinel becomes visible and the observer's callback runs, with
\* the hasNextPage and isFetchingNextPage of the render that created it.
SentinelIntersects ==
    /\ IsMounted
    /\ observer.observing
    /\ observer.hasNextPage /\ ~observer.isFetchingNextPage
    /\ inFlight < MaxInFlight /\ Len(data.pages) < MaxPages
    /\ FetchNextPage

\* A next-page request is answered: the answer of the only outstanding request
\* is appended as a page; that of a superseded request is ignored.
NextPageArrives ==
    /\ inFlight > 0
    /\ inFlight' = inFlight - 1
    /\ IF inFlight = 1
       THEN \E page \in ServerPages, more \in BOOLEAN :
               /\ data' = [pages |-> Append(data.pages, page)]
               /\ hasNextPage' = (more /\ Len(data.pages) + 1 < MaxPages)
               /\ isFetchingNextPage' = FALSE
       ELSE UNCHANGED <<data, hasNextPage, isFetchingNextPage>>
    /\ UNCHANGED <<userProfile, filtered, groupedActivities, sentinelMounted, observer,
                   descriptions, openStates>>

\* !!openStates[key]: whether the group of that key is shown expanded
IsOpen(states, key) == key \in DOMAIN states /\ states[key]

\* toggleOpen(groupId)
toggleOpen(groupId) ==
    openStates' = (groupId :> ~IsOpen(openStates, groupId)) @@ openStates

\* The "Show all"/"Hide" button of the index-th displayed group, or the row of a
\* Follow group, is clicked: both exist only for a group of more than one actor.
ToggleOpenOf(index) ==
    /\ IsMounted
    /\ index \in 1..Len(groupedActivities.value)
    /\ Len(groupedActivities.value[index].actors) > 1
    /\ toggleOpen(OpenStateKey(groupedActivities.value[index], index - 1))
    /\ UNCHANGED <<userProfile, data, hasNextPage, isFetchingNextPage, inFlight,
                   filtered, groupedActivities, sentinelMounted, observer,
                   descriptions>>

ToggleOpen == \E index \in 1..Len(groupedActivities.value) : ToggleOpenOf(index)

\* the state after the first render: nothing loaded yet
Init ==
    /\ userProfile = Absent
    /\ data = Absent
    /\ Mounted

Next ==
    \/ ProfileLoaded
    \/ ActivitiesLoaded
    \/ Render
    \/ SentinelIntersects
    \/ NextPageArrives
    \/ ToggleOpen

Spec == Init /\ [][Next]_vars

----------------------------------------------------------------------------
(* C10 *)

\* C10 as stated: at no time are two next-page requests in flight.
C10_OneRequestInFlight == inFlight <= 1

----------------------------------------------------------------------------
(* C14 *)

\* the groups on display, over all loaded pages
Displayed == 1..Len(groupedActivities.value)

\* the key of the UI state of the n-th displayed group
KeyOfDisplayed(n) == OpenStateKey(groupedActivities.value[n], n - 1)

\* the n-th displayed group is shown expanded
Expanded(n) == IsOpen(openStates, KeyOfDisplayed(n))

\* C14 as stated: after any page loads and toggles, the UI-state keys of the
\* displayed groups are pairwise distinct, and a toggle of one group flips the
\* expanded state of that group and of no other.
C14_ExpandCollapseIsolation ==
    /\ [](IsMounted =>
             \A m, n \in Displayed : KeyOfDisplayed(m) = KeyOfDisplayed(n) => m = n)
    /\ [][\A n \in Displayed :
              ToggleOpenOf(n) =>
                  /\ Expanded(n)' = ~Expanded(n)
                  /\ \A m \in Displayed \ {n} : Expanded(m)' = Expanded(m)]_vars

----------------------------------------------------------------------------
(* C15 *)

\* the view on display is that of the current query state: a render would change
\* neither the groups nor the observer
ViewIsCurrent ==
    /\ IsMounted
    /\ data # Absent
    /\ LET result == GroupedActivities(data, userProfile)
       IN  /\ ~result.threw
           /\ groupedActivities.value = result.value
           /\ filtered = result.filtered
    /\ observer.hasNextPage = hasNextPage
    /\ observer.isFetchingNextPage = isFetchingNextPage

\* the empty view ("Quiet for now, ...") is what the current view shows
EmptyViewShown ==
    /\ ViewIsCurrent
    /\ ~IsLoading(data, userProfile)
    /\ Len(groupedActivities.value) = 0

\* C15 as stated: whenever more pages exist and no fetch is in flight, the
\* load-more sentinel is rendered and observed (so that its becoming visible
\* requests the next page), also when every loaded page filters down to zero
\* groups and the empty view is shown.
C15_SentinelObservedWhileMore ==
    (ViewIsCurrent /\ hasNextPage /\ ~isFetchingNextPage /\ inFlight = 0)
        => sentinelMounted /\ observer.observing

====
